---- MODULE Spec2Model ----
(***************************************************************************)
(* The render-job pipeline of the render server: the job registry          *)
(* (activeJobs), the HTTP handlers start / status / download / cancel /    *)
(* save, the asynchronous render process (frame extraction, audio          *)
(* processing, one or two encoder passes) and the cleanup timers.          *)
(*                                                                         *)
(* Node runs every handler, timer callback and promise continuation to     *)
(* its next await without interleaving, so each action below is one such   *)
(* run-to-completion step.                                                 *)
(***************************************************************************)
EXTENDS Integers, Sequences, FiniteSets, TLC

\* ---------------------------------------------------------------- bounds
Jobs == {"j1"}

\* largest frame count (ceil(duration/1000 * fps)) a submitted design has
MaxFrames == 3

\* largest Duration: / time= value (seconds) an encoder pass prints
MaxTime == 3

\* most save requests of one job that are copying or wait for their cleanup
MaxSaves == 2

\* most audio items with a source in a submitted design
MaxTracks == 2

\* ------------------------------------------------------------- constants
\* no function has been called
NoCall == [op |-> "none"]

\* two jobs that are submitted together
Concurrent == {"j1", "j2"}

\* the bundle directory before the first bundle; writers are the jobs whose
\* bundle() is writing it
NoBundle == [content |-> "none", writers |-> {}]

\* a job that is not submitted: its stage, the frames its renderer has
\* written, and the file-system locations it has written and read
NoExt == [stage |-> "none", frames |-> 0, wrote |-> {}, read |-> {}]

\* frame / 0 in extractFrames' onFrameUpdate: the IEEE value +Infinity,
\* above every finite progress value; Math.floor(Infinity * 0.5) is Infinity
Infinity == 1000000

\* the first pass of a two-pass encode reports progress in 0..FirstPassEnd
FirstPassEnd == 45

\* progress at the hand-over from extraction to encoding
ExtractionShare == 50

NoJob == [status |-> "absent", progress |-> 0, phase |-> "undefined",
          error |-> FALSE, outputPath |-> FALSE]

NoResp == [op |-> "none", job |-> "none", code |-> 0, status |-> "none",
           progress |-> -1, outputPath |-> FALSE]

\* the phases of a progress tracker
PhaseNames == {"extraction", "encoding"}

\* no update event yet
NoUpdate == [phase |-> "none", progress |-> 0, phaseProgress |-> 0]

\* createProgressTracker: the initial state; weights in tenths
NewTracker ==
    [overallProgress |-> 0, phaseProgress |-> 0, currentPhase |-> "initializing",
     phases |-> [n \in PhaseNames |-> [weight |-> 5, progress |-> 0, status |-> "pending"]],
     emitted |-> NoUpdate]

\* useDownloadState: the initial store ("null" for a null error)
NewStore ==
    [exporting |-> FALSE, progress |-> 0, renderPhase |-> "", renderJobId |-> "",
     error |-> "null", output |-> FALSE, socketConnected |-> FALSE]

\* no answer to a status request
NoAnswer == [ok |-> FALSE, status |-> "none", progress |-> 0, phase |-> "none"]

\* nothing exported yet: no request, no socket, no job on the server
NoExport ==
    [start |-> "none", cancel |-> "none", poll |-> "none", answer |-> NoAnswer,
     listening |-> FALSE, chan |-> <<>>, status |-> "absent", progress |-> 0,
     phase |-> "undefined", proc |-> "none"]

VARIABLES
    activeJobs,   \* the registry: job id -> job record, or NoJob
    pc,           \* where each job's startRenderProcess stands
    input,        \* what the client submitted for the job
    framesDone,   \* the renderer's frame counter
    enc,          \* the running encoder pass: parsed Duration and time
    disk,         \* the job's scratch directory, artifact and saved copy
    timers,       \* pending setTimeout callbacks of the job
    copying,      \* save requests awaiting fs.copy
    hist,         \* what the render process has done so far
    evt,          \* the socket events the last step emitted
    resp,         \* the HTTP response the last step sent
    audio,        \* processAudioTracks' loop: tracks fetched, download in flight
    crashed,      \* the server process died of an uncaught exception
    fn,           \* the last call of one of the pipeline's functions
    bundle,       \* the directory temp/bundle that every extraction bundles into
    ext,          \* two concurrent jobs: the stage of each one's extraction
    tracker,      \* the state of a progress tracker and its last update event
    client,       \* the editor's download store
    net           \* the export of the store: its requests, its socket, the job

\* the state of the server with its one job
serverVars == <<activeJobs, pc, input, framesDone, enc, disk, timers, copying, hist,
                evt, resp, audio, crashed>>

\* the state of the specifications that apply single functions
otherVars == <<fn, bundle, ext, tracker, client, net>>

vars == <<serverVars, otherVars>>

\* -------------------------------------------------------------- inputs
\* durationInFrames as extractFrames derives it: negative for a negative
\* duration, 0 for a zero duration
FrameCounts == -1 .. MaxFrames

\* body: the request body holds both a design and options; quality: the
\* options hold a quality label; audio: the number of tracks
\* extractAudioTracks finds in the design
Inputs == [body : BOOLEAN, frames : FrameCounts, twoPass : BOOLEAN,
           quality : BOOLEAN, audio : 0 .. MaxTracks]

NoInput == [body |-> FALSE, frames |-> 0, twoPass |-> FALSE, quality |-> FALSE,
            audio |-> 0]

\* dl is the download in flight: "requested" until the response arrives,
\* "piping" once a 200 response is piped into the write stream
NoAudio == [fetched |-> 0, dl |-> "none"]

NoEnc == [duration |-> 0, currentTime |-> 0]

NoHist == [extract |-> "pending", audio |-> FALSE, spawns |-> 0, passesOk |-> 0,
           encFail |-> FALSE, sawEncoding |-> FALSE, outputOk |-> FALSE,
           fetchFail |-> "none", terminalMsg |-> FALSE,
           pass1Full |-> FALSE, pass2Seen |-> FALSE]

NoDisk == [dir |-> FALSE, frames |-> FALSE, out |-> "none", saved |-> FALSE]

NoTimers == [cancel |-> FALSE, frames |-> FALSE, save |-> 0]

Init ==
    /\ activeJobs = [j \in Jobs |-> NoJob]
    /\ pc = [j \in Jobs |-> "idle"]
    /\ input = [j \in Jobs |-> NoInput]
    /\ framesDone = [j \in Jobs |-> 0]
    /\ enc = [j \in Jobs |-> NoEnc]
    /\ disk = [j \in Jobs |-> NoDisk]
    /\ timers = [j \in Jobs |-> NoTimers]
    /\ copying = [j \in Jobs |-> 0]
    /\ hist = [j \in Jobs |-> NoHist]
    /\ evt = <<>>
    /\ resp = NoResp
    /\ audio = [j \in Jobs |-> NoAudio]
    /\ crashed = FALSE
    /\ fn = NoCall
    /\ bundle = NoBundle
    /\ ext = [j \in Concurrent |-> NoExt]
    /\ tracker = NewTracker
    /\ client = NewStore
    /\ net = NoExport

\* ------------------------------------------------------------- helpers
\* nothing runs in a process that an uncaught exception has ended
Running == ~crashed

\* process.nextTick callbacks run before any other handler or timer
NoTick == \A j \in Jobs : pc[j] # "tick"

Resp(op, j, code, status, progress, outputPath) ==
    [op |-> op, job |-> j, code |-> code, status |-> status,
     progress |-> progress, outputPath |-> outputPath]

ProgressEvent(j, progress, phase) ==
    [job |-> j, kind |-> "progress", progress |-> progress, phase |-> phase]

\* updateProgress: writes the record and emits, when the job is registered
UpdateProgress(job, progress, phase) ==
    IF job = NoJob THEN job
    ELSE [job EXCEPT !.progress = progress, !.phase = phase]

UpdateProgressEvents(j, job, progress, phase) ==
    IF job = NoJob THEN <<>> ELSE <<ProgressEvent(j, progress, phase)>>

\* the catch block of startRenderProcess
RenderError(job) ==
    IF job = NoJob THEN job
    ELSE [job EXCEPT !.status = "error", !.error = TRUE]

RenderErrorEvents(j, job) ==
    IF job = NoJob THEN <<>>
    ELSE <<[job |-> j, kind |-> "error", progress |-> -1, phase |-> "none"]>>

\* the start handler's only check of the request
BodyAccepted(in) == in.body

\* the messages that tell a client that its job has ended
TerminalKinds == {"completed", "error", "cancelled"}

\* the history h of all jobs after job j's step has emitted `events`
Told(j, h, events) ==
    [h EXCEPT ![j].terminalMsg =
        @ \/ \E i \in 1 .. Len(events) : events[i].kind \in TerminalKinds]

\* POST /api/render/start
Submit(j, in) ==
    /\ Running
    /\ NoTick
    /\ pc[j] = "idle"
    /\ IF BodyAccepted(in)
       THEN /\ activeJobs' = [activeJobs EXCEPT ![j] =
                  [status |-> "initialized", progress |-> 0, phase |-> "undefined",
                   error |-> FALSE, outputPath |-> FALSE]]
            /\ pc' = [pc EXCEPT ![j] = "tick"]
            /\ input' = [input EXCEPT ![j] = in]
            /\ disk' = [disk EXCEPT ![j].dir = TRUE, ![j].frames = TRUE]
            /\ resp' = Resp("start", j, 200, "initialized", -1, FALSE)
       ELSE /\ resp' = Resp("start", j, 400, "none", -1, FALSE)
            /\ UNCHANGED <<activeJobs, pc, input, disk>>
    /\ evt' = <<>>
    /\ UNCHANGED <<framesDone, enc, timers, copying, hist, audio, crashed>>
    /\ UNCHANGED otherVars

\* Number(durationInFrames) || 1: the frame count the renderer is given
RenderFrames(d) == IF d = 0 THEN 1 ELSE d

\* extractFrames' checks of renderConfig (width, height and fps are fixed
\* valid values here)
ConfigValid(d) == RenderFrames(d) > 0

\* onFrameUpdate: progress = frame / durationInFrames * 100 with the
\* derived count (not the renderer's), then Math.floor(progress * 0.5) in
\* startRenderProcess; exact arithmetic, monotone in frame as the floats are
ExtractionProgress(frame, d) ==
    IF d = 0 THEN Infinity ELSE (ExtractionShare * frame) \div d

\* the nextTick callback: startRenderProcess up to extractFrames' first await
StartRender(j) ==
    /\ pc[j] = "tick"
    /\ LET job1 == [activeJobs[j] EXCEPT !.status = "rendering", !.phase = "extraction"]
           job2 == UpdateProgress(job1, 0, "extraction")
           ev2  == UpdateProgressEvents(j, job1, 0, "extraction")
       IN IF ConfigValid(input[j].frames)
          THEN /\ activeJobs' = [activeJobs EXCEPT ![j] = job2]
               /\ pc' = [pc EXCEPT ![j] = "extracting"]
               /\ evt' = ev2
               /\ hist' = hist
          ELSE /\ activeJobs' = [activeJobs EXCEPT ![j] = RenderError(job2)]
               /\ pc' = [pc EXCEPT ![j] = "done"]
               /\ evt' = ev2 \o RenderErrorEvents(j, job2)
               /\ hist' = Told(j, [hist EXCEPT ![j].extract = "threw"],
                               RenderErrorEvents(j, job2))
    /\ resp' = NoResp
    /\ UNCHANGED <<input, framesDone, enc, disk, timers, copying, audio, crashed>>
    /\ UNCHANGED otherVars

\* renderFrames reports a frame counter, which never decreases
FrameUpdate(j, f) ==
    /\ Running
    /\ NoTick
    /\ pc[j] = "extracting"
    /\ f > framesDone[j]
    /\ f <= RenderFrames(input[j].frames)
    /\ framesDone' = [framesDone EXCEPT ![j] = f]
    /\ LET p == ExtractionProgress(f, input[j].frames)
       IN /\ activeJobs' = [activeJobs EXCEPT ![j] = UpdateProgress(@, p, "extraction")]
          /\ evt' = UpdateProgressEvents(j, activeJobs[j], p, "extraction")
    /\ resp' = NoResp
    /\ UNCHANGED <<pc, input, enc, disk, timers, copying, hist, audio, crashed>>
    /\ UNCHANGED otherVars

\* a render process that swallows the extraction error and goes on to encode
ExtractThrowSwallowed(j) ==
    /\ Running
    /\ NoTick
    /\ pc[j] = "extracting"
    /\ activeJobs' = [activeJobs EXCEPT ![j] = UpdateProgress(@, ExtractionShare, "encoding")]
    /\ evt' = UpdateProgressEvents(j, activeJobs[j], ExtractionShare, "encoding")
    /\ pc' = [pc EXCEPT ![j] = "audio"]
    /\ hist' = [hist EXCEPT ![j].extract = "threw", ![j].sawEncoding = TRUE,
                            ![j].audio = TRUE]
    /\ resp' = NoResp
    /\ UNCHANGED <<input, framesDone, enc, disk, timers, copying, audio, crashed>>
    /\ UNCHANGED otherVars

\* bundle, openBrowser, selectComposition or renderFrames rejects
ExtractThrow(j) ==
    /\ Running
    /\ NoTick
    /\ pc[j] = "extracting"
    /\ activeJobs' = [activeJobs EXCEPT ![j] = RenderError(@)]
    /\ evt' = RenderErrorEvents(j, activeJobs[j])
    /\ pc' = [pc EXCEPT ![j] = "done"]
    /\ hist' = Told(j, [hist EXCEPT ![j].extract = "threw"],
                    RenderErrorEvents(j, activeJobs[j]))
    /\ resp' = NoResp
    /\ UNCHANGED <<input, framesDone, enc, disk, timers, copying, audio, crashed>>
    /\ UNCHANGED otherVars

\* processAudioTracks up to its first await: no download without tracks,
\* else the first track's
FirstDownload(tracks) ==
    [fetched |-> 0, dl |-> IF tracks = 0 THEN "none" ELSE "requested"]

\* extractFrames resolves: updateProgress(50, 'encoding'), the output path
\* (options.quality.replace throws on a missing quality), then encodeVideo
\* up to its await of processAudioTracks (readdirSync of the frames throws
\* when the directory is gone), which starts the first download
ExtractReturn(j) ==
    /\ Running
    /\ NoTick
    /\ pc[j] = "extracting"
    /\ framesDone[j] = RenderFrames(input[j].frames)
    /\ LET job1 == UpdateProgress(activeJobs[j], ExtractionShare, "encoding")
           ev1  == UpdateProgressEvents(j, activeJobs[j], ExtractionShare, "encoding")
           h1   == [hist[j] EXCEPT !.extract = "ok", !.sawEncoding = TRUE]
       IN IF input[j].quality /\ disk[j].frames
          THEN /\ activeJobs' = [activeJobs EXCEPT ![j] = job1]
               /\ evt' = ev1
               /\ pc' = [pc EXCEPT ![j] = "audio"]
               /\ hist' = [hist EXCEPT ![j] = [h1 EXCEPT !.audio = TRUE]]
               /\ audio' = [audio EXCEPT ![j] = FirstDownload(input[j].audio)]
          ELSE /\ activeJobs' = [activeJobs EXCEPT ![j] = RenderError(job1)]
               /\ evt' = ev1 \o RenderErrorEvents(j, job1)
               /\ pc' = [pc EXCEPT ![j] = "done"]
               /\ hist' = Told(j, [hist EXCEPT ![j] = h1], RenderErrorEvents(j, job1))
               /\ UNCHANGED audio
    /\ resp' = NoResp
    /\ UNCHANGED <<input, framesDone, enc, disk, timers, copying, crashed>>
    /\ UNCHANGED otherVars

\* how a download can fail: a response other than 200, the request's
\* 'error' event, the write stream's 'error' event
FetchFailures == {"status", "network", "write"}

\* downloadFile rejects: the response is not 200 or the request emits
\* 'error' before a response, or the write stream emits 'error' after the
\* response handler has registered its listener; processAudioTracks and
\* encodeVideo reject with it and startRenderProcess' catch runs
AudioThrow(j, cause) ==
    /\ Running
    /\ NoTick
    /\ pc[j] = "audio"
    /\ audio[j].dl = (IF cause = "write" THEN "piping" ELSE "requested")
    /\ activeJobs' = [activeJobs EXCEPT ![j] = RenderError(@)]
    /\ evt' = RenderErrorEvents(j, activeJobs[j])
    /\ pc' = [pc EXCEPT ![j] = "done"]
    /\ audio' = [audio EXCEPT ![j].dl = "none"]
    /\ hist' = Told(j, [hist EXCEPT ![j].fetchFail = cause],
                    RenderErrorEvents(j, activeJobs[j]))
    /\ resp' = NoResp
    /\ UNCHANGED <<input, framesDone, enc, disk, timers, copying, crashed>>
    /\ UNCHANGED otherVars

\* the write stream emits 'error' (the file cannot be opened) before the
\* response has arrived: no 'error' listener is registered yet, the event
\* is thrown as an uncaught exception and ends the process
WriteErrorUncaught(j) ==
    /\ Running
    /\ NoTick
    /\ pc[j] = "audio"
    /\ audio[j].dl = "requested"
    /\ crashed' = TRUE
    /\ hist' = [hist EXCEPT ![j].fetchFail = "write"]
    /\ evt' = <<>>
    /\ resp' = NoResp
    /\ UNCHANGED <<activeJobs, pc, input, framesDone, enc, disk, timers, copying, audio>>
    /\ UNCHANGED otherVars

\* a 200 response arrives: it is piped into the write stream and the
\* stream's 'finish' and 'error' listeners are registered
AudioResponse(j) ==
    /\ Running
    /\ NoTick
    /\ pc[j] = "audio"
    /\ audio[j].dl = "requested"
    /\ audio' = [audio EXCEPT ![j].dl = "piping"]
    /\ evt' = <<>>
    /\ resp' = NoResp
    /\ UNCHANGED <<activeJobs, pc, input, framesDone, enc, disk, timers, copying, hist, crashed>>
    /\ UNCHANGED otherVars

\* the write stream finishes and further tracks remain: the loop of
\* processAudioTracks starts the next download
AudioFetched(j) ==
    /\ Running
    /\ NoTick
    /\ pc[j] = "audio"
    /\ audio[j].dl = "piping"
    /\ audio[j].fetched + 1 < input[j].audio
    /\ audio' = [audio EXCEPT ![j] = [fetched |-> @.fetched + 1, dl |-> "requested"]]
    /\ evt' = <<>>
    /\ resp' = NoResp
    /\ UNCHANGED <<activeJobs, pc, input, framesDone, enc, disk, timers, copying, hist, crashed>>
    /\ UNCHANGED otherVars

\* processAudioTracks resolves (the last download finishes, or the design
\* has no track): generateFFmpegCommand, then the first spawn
AudioDone(j) ==
    /\ Running
    /\ NoTick
    /\ pc[j] = "audio"
    /\ \/ audio[j].dl = "none" /\ input[j].audio = 0
       \/ audio[j].dl = "piping" /\ audio[j].fetched + 1 = input[j].audio
    /\ audio' = [audio EXCEPT ![j] = [fetched |-> input[j].audio, dl |-> "none"]]
    /\ pc' = [pc EXCEPT ![j] = IF input[j].twoPass THEN "pass1" ELSE "main"]
    /\ enc' = [enc EXCEPT ![j] = NoEnc]
    /\ hist' = [hist EXCEPT ![j].spawns = @ + 1]
    /\ evt' = <<>>
    /\ resp' = NoResp
    /\ UNCHANGED <<activeJobs, input, framesDone, disk, timers, copying, crashed>>
    /\ UNCHANGED otherVars

\* runFFmpegProcess' stderr handler: Math.min(Math.round(progressStart +
\* currentTime / duration * (progressEnd - progressStart)), progressEnd);
\* Math.round rounds halves up
PassProgress(t, dur, start, end) ==
    LET r == (2 * start * dur + 2 * t * (end - start) + dur) \div (2 * dur)
    IN IF r < end THEN r ELSE end

\* encodeVideo's progressStart and progressEnd of the running pass
PassStart(j) == IF pc[j] = "main" /\ input[j].twoPass THEN FirstPassEnd ELSE 0

PassEnd(j) == IF pc[j] = "pass1" THEN FirstPassEnd ELSE 100

\* startRenderProcess' encoder onProgress: 50 + Math.floor(progress * 0.5)
EncodingProgress(p) == ExtractionShare + (p \div 2)

\* a close handler that resolves whatever the exit code
PassResolvesAnyCode(code) == code \in {0, 1}

\* runFFmpegProcess' close handler resolves on exit code 0 alone
PassResolves(code) == code = 0

\* encodeVideo after the last pass: fs.stat rejects when the file is
\* missing, and a size of 0 throws
OutputOk(out) == out = "full"

\* step 3 of startRenderProcess
Complete(job) ==
    IF job = NoJob THEN job
    ELSE [job EXCEPT !.status = "completed", !.progress = 100,
                     !.outputPath = TRUE, !.phase = "completed"]

CompleteEvents(j, job) ==
    IF job = NoJob THEN <<>>
    ELSE <<[job |-> j, kind |-> "completed", progress |-> 100, phase |-> "completed"]>>

\* a chunk of the encoder's stderr: d is its Duration: marker (0: none, or
\* 00:00:00), t its time= marker (-1: none); time= markers never decrease
StderrData(j, d, t) ==
    /\ Running
    /\ NoTick
    /\ pc[j] \in {"pass1", "main"}
    /\ t = -1 \/ t >= enc[j].currentTime
    /\ LET dur == IF enc[j].duration = 0 THEN d ELSE enc[j].duration
       IN IF t >= 0 /\ dur > 0
          THEN LET q == PassProgress(t, dur, PassStart(j), PassEnd(j))
                   p == EncodingProgress(q)
               IN /\ enc' = [enc EXCEPT ![j] = [duration |-> dur, currentTime |-> t]]
                  /\ activeJobs' = [activeJobs EXCEPT ![j] = UpdateProgress(@, p, "encoding")]
                  /\ evt' = UpdateProgressEvents(j, activeJobs[j], p, "encoding")
                  /\ hist' = IF pc[j] = "pass1"
                             THEN [hist EXCEPT ![j].pass1Full = (q = PassEnd(j))]
                             ELSE [hist EXCEPT ![j].pass2Seen = @ \/ input[j].twoPass]
          ELSE /\ enc' = [enc EXCEPT ![j].duration = dur]
               /\ evt' = <<>>
               /\ UNCHANGED <<activeJobs, hist>>
    /\ resp' = NoResp
    /\ UNCHANGED <<pc, input, framesDone, disk, timers, copying, audio, crashed>>
    /\ UNCHANGED otherVars

\* the first pass closes
FirstPassClose(j, code) ==
    /\ Running
    /\ NoTick
    /\ pc[j] = "pass1"
    /\ IF PassResolves(code)
       THEN /\ pc' = [pc EXCEPT ![j] = "main"]
            /\ enc' = [enc EXCEPT ![j] = NoEnc]
            /\ hist' = [hist EXCEPT ![j].spawns = @ + 1,
                                    ![j].passesOk = @ + (IF code = 0 THEN 1 ELSE 0),
                                    ![j].encFail = @ \/ code # 0]
            /\ evt' = <<>>
            /\ UNCHANGED activeJobs
       ELSE /\ pc' = [pc EXCEPT ![j] = "done"]
            /\ hist' = Told(j, [hist EXCEPT ![j].encFail = TRUE],
                            RenderErrorEvents(j, activeJobs[j]))
            /\ activeJobs' = [activeJobs EXCEPT ![j] = RenderError(@)]
            /\ evt' = RenderErrorEvents(j, activeJobs[j])
            /\ UNCHANGED enc
    /\ resp' = NoResp
    /\ UNCHANGED <<input, framesDone, disk, timers, copying, audio, crashed>>
    /\ UNCHANGED otherVars

\* the main (or second) pass closes; on success encodeVideo stats the
\* output file `out` that the encoder left, and startRenderProcess completes
MainClose(j, code, out) ==
    /\ Running
    /\ NoTick
    /\ pc[j] = "main"
    /\ pc' = [pc EXCEPT ![j] = "done"]
    /\ LET file == IF disk[j].dir THEN out ELSE "none"
       IN /\ disk' = [disk EXCEPT ![j].out = file]
          /\ IF PassResolves(code) /\ OutputOk(file)
             THEN /\ activeJobs' = [activeJobs EXCEPT ![j] = Complete(@)]
                  /\ evt' = CompleteEvents(j, activeJobs[j])
                  /\ timers' = [timers EXCEPT ![j].frames = TRUE]
                  /\ hist' = Told(j, [hist EXCEPT
                                          ![j].passesOk = @ + (IF code = 0 THEN 1 ELSE 0),
                                          ![j].encFail = @ \/ code # 0 \/ file # "full",
                                          ![j].outputOk = (file = "full")],
                                  CompleteEvents(j, activeJobs[j]))
             ELSE /\ activeJobs' = [activeJobs EXCEPT ![j] = RenderError(@)]
                  /\ evt' = RenderErrorEvents(j, activeJobs[j])
                  /\ hist' = Told(j, [hist EXCEPT ![j].encFail = TRUE],
                                  RenderErrorEvents(j, activeJobs[j]))
                  /\ UNCHANGED timers
    /\ resp' = NoResp
    /\ UNCHANGED <<input, framesDone, enc, copying, audio, crashed>>
    /\ UNCHANGED otherVars

\* the spawned encoder emits 'error' (it could not be started)
PassError(j) ==
    /\ Running
    /\ NoTick
    /\ pc[j] \in {"pass1", "main"}
    /\ pc' = [pc EXCEPT ![j] = "done"]
    /\ hist' = Told(j, [hist EXCEPT ![j].encFail = TRUE],
                    RenderErrorEvents(j, activeJobs[j]))
    /\ activeJobs' = [activeJobs EXCEPT ![j] = RenderError(@)]
    /\ evt' = RenderErrorEvents(j, activeJobs[j])
    /\ resp' = NoResp
    /\ UNCHANGED <<input, framesDone, enc, disk, timers, copying, audio, crashed>>
    /\ UNCHANGED otherVars

Render ==
    \/ \E j \in Jobs : StartRender(j)
    \/ \E j \in Jobs, f \in 1 .. MaxFrames : FrameUpdate(j, f)
    \/ \E j \in Jobs : ExtractThrow(j)
    \/ \E j \in Jobs : ExtractReturn(j)
    \/ \E j \in Jobs, cause \in FetchFailures : AudioThrow(j, cause)
    \/ \E j \in Jobs : WriteErrorUncaught(j)
    \/ \E j \in Jobs : AudioResponse(j)
    \/ \E j \in Jobs : AudioFetched(j)
    \/ \E j \in Jobs : AudioDone(j)
    \/ \E j \in Jobs, d \in 0 .. MaxTime, t \in -1 .. MaxTime + 1 : StderrData(j, d, t)
    \/ \E j \in Jobs, code \in {0, 1} : FirstPassClose(j, code)
    \/ \E j \in Jobs, code \in {0, 1}, out \in {"none", "empty", "full"} : MainClose(j, code, out)
    \/ \E j \in Jobs : PassError(j)

\* ------------------------------------------------------- HTTP handlers
\* GET /api/render/status/:jobId
Status(j) ==
    /\ Running
    /\ NoTick
    /\ LET job == activeJobs[j]
       IN resp' = IF job = NoJob
                  THEN Resp("status", j, 404, "none", -1, FALSE)
                  ELSE Resp("status", j, 200, job.status, job.progress, job.outputPath)
    /\ evt' = <<>>
    /\ UNCHANGED <<activeJobs, pc, input, framesDone, enc, disk, timers, copying, hist, audio, crashed>>
    /\ UNCHANGED otherVars

\* a download handler that checks nothing but the registry entry
DownloadAllowedAlways(job) == job # NoJob

\* the download handler's check of the record
DownloadAllowed(job) == job.status = "completed" /\ job.outputPath

\* GET /api/render/download/:jobId; res.download answers 404 when the file
\* is gone
Download(j) ==
    /\ Running
    /\ NoTick
    /\ LET job == activeJobs[j]
       IN resp' = IF job = NoJob
                  THEN Resp("download", j, 404, "none", -1, FALSE)
                  ELSE IF ~DownloadAllowed(job)
                  THEN Resp("download", j, 400, "none", -1, FALSE)
                  ELSE IF disk[j].out = "none"
                  THEN Resp("download", j, 404, "none", -1, FALSE)
                  ELSE Resp("download", j, 200, "none", -1, TRUE)
    /\ evt' = <<>>
    /\ UNCHANGED <<activeJobs, pc, input, framesDone, enc, disk, timers, copying, hist, audio, crashed>>
    /\ UNCHANGED otherVars

\* the cancel handler's test: only jobs in progress are cancelled
Cancellable(job) == job.status \in {"rendering", "initialized"}

\* POST /api/render/cancel/:jobId
Cancel(j) ==
    /\ Running
    /\ NoTick
    /\ LET job == activeJobs[j]
       IN IF job = NoJob
          THEN /\ resp' = Resp("cancel", j, 404, "none", -1, FALSE)
               /\ evt' = <<>>
               /\ UNCHANGED <<activeJobs, timers, hist>>
          ELSE IF Cancellable(job)
          THEN /\ activeJobs' = [activeJobs EXCEPT ![j] =
                     [job EXCEPT !.status = "cancelled", !.progress = 0]]
               /\ evt' = <<[job |-> j, kind |-> "cancelled", progress |-> 0,
                           phase |-> "cancelled"]>>
               /\ timers' = [timers EXCEPT ![j].cancel = TRUE]
               /\ hist' = [hist EXCEPT ![j].terminalMsg = TRUE]
               /\ resp' = Resp("cancel", j, 200, "cancelled", -1, FALSE)
          ELSE /\ resp' = Resp("cancel", j, 400, job.status, -1, FALSE)
               /\ evt' = <<>>
               /\ UNCHANGED <<activeJobs, timers, hist>>
    /\ UNCHANGED <<pc, input, framesDone, enc, disk, copying, audio, crashed>>
    /\ UNCHANGED otherVars

\* POST /api/render/save/:jobId up to its await of fs.copy: path tells
\* whether the body names an output path, mk whether ensureDirSync of the
\* destination directory succeeds
SaveBegin(j, path, mk) ==
    /\ Running
    /\ NoTick
    /\ copying[j] + timers[j].save < MaxSaves
    /\ LET job == activeJobs[j]
       IN IF ~path
          THEN /\ resp' = Resp("save", j, 400, "none", -1, FALSE)
               /\ UNCHANGED copying
          ELSE IF job = NoJob
          THEN /\ resp' = Resp("save", j, 404, "none", -1, FALSE)
               /\ UNCHANGED copying
          ELSE IF job.status # "completed"
          THEN /\ resp' = Resp("save", j, 400, job.status, -1, FALSE)
               /\ UNCHANGED copying
          ELSE IF ~job.outputPath \/ disk[j].out = "none"
          THEN /\ resp' = Resp("save", j, 404, "none", -1, FALSE)
               /\ UNCHANGED copying
          ELSE IF ~mk
          THEN /\ resp' = Resp("save", j, 500, "none", -1, FALSE)
               /\ UNCHANGED copying
          ELSE /\ resp' = NoResp
               /\ copying' = [copying EXCEPT ![j] = @ + 1]
    /\ evt' = <<>>
    /\ UNCHANGED <<activeJobs, pc, input, framesDone, enc, disk, timers, hist, audio, crashed>>
    /\ UNCHANGED otherVars

\* a save handler that schedules its cleanup whether or not the copy worked
SaveFinishAlwaysCleans(j, ok) ==
    /\ Running
    /\ NoTick
    /\ copying[j] > 0
    /\ copying' = [copying EXCEPT ![j] = @ - 1]
    /\ timers' = [timers EXCEPT ![j].save = @ + 1]
    /\ IF ok
       THEN /\ disk' = [disk EXCEPT ![j].saved = TRUE]
            /\ resp' = Resp("save", j, 200, "none", -1, TRUE)
       ELSE /\ resp' = Resp("save", j, 500, "none", -1, FALSE)
            /\ UNCHANGED disk
    /\ evt' = <<>>
    /\ UNCHANGED <<activeJobs, pc, input, framesDone, enc, hist, audio, crashed>>
    /\ UNCHANGED otherVars

\* fs.copy settles: on success the 5 s cleanup is scheduled and the save
\* acknowledged; a rejection goes to the handler's catch
SaveFinish(j, ok) ==
    /\ Running
    /\ NoTick
    /\ copying[j] > 0
    /\ copying' = [copying EXCEPT ![j] = @ - 1]
    /\ IF ok
       THEN /\ disk' = [disk EXCEPT ![j].saved = TRUE]
            /\ timers' = [timers EXCEPT ![j].save = @ + 1]
            /\ resp' = Resp("save", j, 200, "none", -1, TRUE)
       ELSE /\ resp' = Resp("save", j, 500, "none", -1, FALSE)
            /\ UNCHANGED <<disk, timers>>
    /\ evt' = <<>>
    /\ UNCHANGED <<activeJobs, pc, input, framesDone, enc, hist, audio, crashed>>
    /\ UNCHANGED otherVars

Http ==
    \/ \E j \in Jobs : Status(j)
    \/ \E j \in Jobs : Download(j)
    \/ \E j \in Jobs : Cancel(j)
    \/ \E j \in Jobs, path \in BOOLEAN, mk \in BOOLEAN : SaveBegin(j, path, mk)
    \/ \E j \in Jobs, ok \in BOOLEAN : SaveFinish(j, ok)

\* --------------------------------------------------------------- timers
\* Timers fire in the order of their expiry. The cancel timer (1 s) is set
\* before the job can complete, so it expires before the frames timer
\* (5 min) and before every save timer (5 s); save timers fire in the order
\* they were set.

\* the cancel handler's timeout: removes the job directory
CancelCleanup(j) ==
    /\ Running
    /\ NoTick
    /\ timers[j].cancel
    /\ timers' = [timers EXCEPT ![j].cancel = FALSE]
    /\ disk' = [disk EXCEPT ![j].dir = FALSE, ![j].frames = FALSE, ![j].out = "none"]
    /\ evt' = <<>>
    /\ resp' = NoResp
    /\ UNCHANGED <<activeJobs, pc, input, framesDone, enc, copying, hist, audio, crashed>>
    /\ UNCHANGED otherVars

\* the timeout set on completion: removes the frames directory
FramesCleanup(j) ==
    /\ Running
    /\ NoTick
    /\ timers[j].frames
    /\ ~timers[j].cancel
    /\ timers' = [timers EXCEPT ![j].frames = FALSE]
    /\ disk' = [disk EXCEPT ![j].frames = FALSE]
    /\ evt' = <<>>
    /\ resp' = NoResp
    /\ UNCHANGED <<activeJobs, pc, input, framesDone, enc, copying, hist, audio, crashed>>
    /\ UNCHANGED otherVars

\* the save handler's timeout: removes the job directory and the registry
\* entry
SaveCleanup(j) ==
    /\ Running
    /\ NoTick
    /\ timers[j].save > 0
    /\ ~timers[j].cancel
    /\ timers' = [timers EXCEPT ![j].save = @ - 1]
    /\ disk' = [disk EXCEPT ![j].dir = FALSE, ![j].frames = FALSE, ![j].out = "none"]
    /\ activeJobs' = [activeJobs EXCEPT ![j] = NoJob]
    /\ evt' = <<>>
    /\ resp' = NoResp
    /\ UNCHANGED <<pc, input, framesDone, enc, copying, hist, audio, crashed>>
    /\ UNCHANGED otherVars

Timers ==
    \/ \E j \in Jobs : CancelCleanup(j)
    \/ \E j \in Jobs : FramesCleanup(j)
    \/ \E j \in Jobs : SaveCleanup(j)

Next ==
    \/ \E j \in Jobs, in \in Inputs : Submit(j, in)
    \/ Render
    \/ Http
    \/ Timers

Spec == Init /\ [][Next]_vars

\* ================================================ the pipeline's functions
\* The functions that plan a job are applied to inputs drawn from bounded
\* sets; fn records the call.
Call(op, arg, out) == [op |-> op, arg |-> arg, out |-> out]

\* ------------------------------------------------------------ detectSystem
\* the three probes, each its own `ffmpeg -hwaccels`, named by what they
\* look for in its output
Probes == {"qsv", "videotoolbox", "cuda"}

\* os.totalmem() in MB
MemorySizes == {4096, 8192, 16384}

\* memory of at most this many MB is constrained
ConstrainedMB == 8192

\* what the host answers: hostFails when a query outside the probes
\* throws or rejects (os.cpus, nodeOsUtils.cpu.usage), probeOk whether a
\* probe's exec resolves, hwaccels what ffmpeg then lists
HostAnswers ==
    [isArm : BOOLEAN, totalMemoryMB : MemorySizes, hostFails : BOOLEAN,
     probeOk : [Probes -> BOOLEAN], hwaccels : SUBSET Probes]

\* the outer catch of detectSystem
ConservativeDefaults ==
    [isArm |-> FALSE, totalMemoryMB |-> ConstrainedMB, hasQuickSync |-> FALSE,
     hasVideoToolbox |-> FALSE, hasNvenc |-> FALSE, isMemoryConstrained |-> TRUE]

\* a probe: its own catch leaves the flag false
Probe(q, p) == q.probeOk[p] /\ p \in q.hwaccels

\* a detector that answers a failing probe with the defaults as well
DetectSystemAllOrNothing(q) ==
    IF q.hostFails \/ \E p \in Probes : ~q.probeOk[p] THEN ConservativeDefaults
    ELSE [isArm |-> q.isArm,
          totalMemoryMB |-> q.totalMemoryMB,
          hasQuickSync |-> ~q.isArm /\ "qsv" \in q.hwaccels,
          hasVideoToolbox |-> "videotoolbox" \in q.hwaccels,
          hasNvenc |-> "cuda" \in q.hwaccels,
          isMemoryConstrained |-> q.totalMemoryMB <= ConstrainedMB]

\* detectSystem
DetectSystem(q) ==
    IF q.hostFails THEN ConservativeDefaults
    ELSE [isArm |-> q.isArm,
          totalMemoryMB |-> q.totalMemoryMB,
          hasQuickSync |-> ~q.isArm /\ Probe(q, "qsv"),
          hasVideoToolbox |-> Probe(q, "videotoolbox"),
          hasNvenc |-> Probe(q, "cuda"),
          isMemoryConstrained |-> q.totalMemoryMB <= ConstrainedMB]

CallDetectSystem(q) ==
    /\ fn' = Call("detectSystem", q, DetectSystem(q))
    /\ UNCHANGED <<serverVars, bundle, ext, tracker, client, net>>

\* ------------------------------------------------- the timeline duration
\* a field that the design does not have (undefined)
Missing == -1

\* durations and display ends, in milliseconds
Durations == {0, 280, 1000, 2000}

\* a design: its duration, its timelineDuration and the display.to of the
\* items of its trackItemsMap
Designs ==
    [duration : Durations \cup {Missing},
     timelineDuration : Durations \cup {Missing},
     items : SUBSET (Durations \cup {Missing})]

\* encodeVideo's `design?.duration || 10000`
DefaultDuration == 10000

Max(S) == CHOOSE m \in S : \A x \in S : x <= m

\* Math.max(...items.map(item => item.display?.to || 0))
MaxEndTime(items) == Max({IF to = Missing THEN 0 ELSE to : to \in items})

\* the precedence that extractFrames and encodeVideo both apply to their
\* own fallback value
Precedence(design, fallback) ==
    IF design.timelineDuration # Missing /\ design.timelineDuration > 0
    THEN design.timelineDuration
    ELSE IF design.items # {}
            /\ MaxEndTime(design.items) > 0
            /\ MaxEndTime(design.items) # design.duration
    THEN MaxEndTime(design.items)
    ELSE fallback

\* extractFrames: let timelineDuration = design.duration
TimelineDuration(design) == Precedence(design, design.duration)

\* encodeVideo: let totalDuration = design?.duration || 10000
TotalDuration(design) ==
    Precedence(design, IF design.duration \in {Missing, 0}
                       THEN DefaultDuration ELSE design.duration)

CallDuration(design) ==
    /\ fn' = Call("duration", design,
                  [extraction |-> TimelineDuration(design),
                   audio |-> TotalDuration(design)])
    /\ UNCHANGED <<serverVars, bundle, ext, tracker, client, net>>

\* --------------------------------------------------------- the frame count
\* options.fps
FrameRates == {25, 30}

\* the pairs of duration and fps for which the IEEE-754 double
\* (duration / 1000) * fps lies just above the exact product:
\* 280 / 1000 * 25 is 7.000000000000001
RoundedUp == {<<280, 25>>}

\* Math.ceil((timelineDuration / 1000) * fps) in double arithmetic
DurationInFrames(duration, fps) ==
    ((duration * fps + 999) \div 1000)
    + (IF <<duration, fps>> \in RoundedUp THEN 1 ELSE 0)

\* extractFrames: the derived count, and the durationInFrames of the
\* renderConfig that selectComposition and renderFrames are given
CallFrames(duration, fps) ==
    /\ fn' = Call("frames", [duration |-> duration, fps |-> fps],
                  [derived |-> DurationInFrames(duration, fps),
                   requested |-> RenderFrames(DurationInFrames(duration, fps))])
    /\ UNCHANGED <<serverVars, bundle, ext, tracker, client, net>>

\* ---------------------------------------------------------- the batch size
\* options.size.width and options.size.height
Widths == {1080, 1280, 1920, 3840}

Heights == {720, 1080, 1920, 2160}

\* a batch size table whose classes need both dimensions
BatchSizeBothDimensions(width, height, isMemoryConstrained) ==
    IF isMemoryConstrained
    THEN IF width >= 3840 /\ height >= 2160 THEN 10
         ELSE IF width >= 1920 /\ height >= 1080 THEN 15
         ELSE 20
    ELSE IF width >= 3840 /\ height >= 2160 THEN 20
         ELSE IF width >= 1920 /\ height >= 1080 THEN 30
         ELSE 60

\* extractFrames: batchSize
BatchSize(width, height, isMemoryConstrained) ==
    IF isMemoryConstrained
    THEN IF width >= 3840 \/ height >= 2160 THEN 10
         ELSE IF width >= 1920 \/ height >= 1080 THEN 15
         ELSE 20
    ELSE IF width >= 3840 \/ height >= 2160 THEN 20
         ELSE IF width >= 1920 \/ height >= 1080 THEN 30
         ELSE 60

CallBatchSize(width, height, isMemoryConstrained) ==
    /\ fn' = Call("batchSize",
                  [width |-> width, height |-> height,
                   isMemoryConstrained |-> isMemoryConstrained],
                  BatchSize(width, height, isMemoryConstrained))
    /\ UNCHANGED <<serverVars, bundle, ext, tracker, client, net>>

\* ------------------------------------------------------- the encoding plan
\* options.quality, the labels the editor offers
Qualities == {"Full HD (1080p)", "4K (2160p)"}

\* quality.includes('4K')
Includes4K(quality) == quality = "4K (2160p)"

\* generateFFmpegCommand: isHighRes
IsHighRes(width, height, quality) ==
    width >= 3840 \/ height >= 2160 \/ Includes4K(quality)

\* a planner that judges the resolution by the size alone
UseTwoPassBySize(width, height, quality, isMemoryConstrained) ==
    width >= 3840 \/ height >= 2160 \/ isMemoryConstrained

\* generateFFmpegCommand: useTwoPass
UseTwoPass(width, height, quality, isMemoryConstrained) ==
    IsHighRes(width, height, quality) \/ isMemoryConstrained

\* startRenderProcess hands the same size and systemInfo to extractFrames
\* (batch size) and to encodeVideo (plan)
CallPlan(width, height, quality, isMemoryConstrained) ==
    /\ fn' = Call("plan",
                  [width |-> width, height |-> height, quality |-> quality,
                   isMemoryConstrained |-> isMemoryConstrained],
                  [twoPass |-> UseTwoPass(width, height, quality, isMemoryConstrained),
                   batchSize |-> BatchSize(width, height, isMemoryConstrained)])
    /\ UNCHANGED <<serverVars, bundle, ext, tracker, client, net>>

\* --------------------------------------------------- the codec of the plan
\* the systemInfo that encodeVideo passes on: what detectSystem can return
SystemInfos == {DetectSystem(q) : q \in HostAnswers}

\* generateFFmpegCommand: preset (the same rule in both resolution classes)
Preset(isMemoryConstrained) == IF isMemoryConstrained THEN "medium" ELSE "slow"

\* generateFFmpegCommand: crf of the resolution class
HighResCrf == 22
StandardCrf == 20
Crf(isHighRes) == IF isHighRes THEN HighResCrf ELSE StandardCrf

\* generateFFmpegCommand: the codec of mainArgs, by the order of the if chain
MainCodec(systemInfo) ==
    IF systemInfo.isArm /\ systemInfo.hasVideoToolbox THEN "h264_videotoolbox"
    ELSE IF systemInfo.hasNvenc THEN "h264_nvenc"
    ELSE IF systemInfo.hasQuickSync THEN "h264_qsv"
    ELSE "libx264"

\* generateFFmpegCommand: the rate control that goes with the codec of
\* mainArgs; only libx264 is given -crf
MainRate(systemInfo) ==
    IF MainCodec(systemInfo) = "libx264" THEN "crf" ELSE "bitrate"

\* a planner whose second pass keeps the codec of mainArgs
FinalPassByPreference(systemInfo, width, height, quality) ==
    [twoPass |-> UseTwoPass(width, height, quality, systemInfo.isMemoryConstrained),
     codec |-> MainCodec(systemInfo),
     rate |-> MainRate(systemInfo),
     preset |-> Preset(systemInfo.isMemoryConstrained),
     crf |-> IF MainCodec(systemInfo) = "libx264"
             THEN Crf(IsHighRes(width, height, quality)) ELSE Missing]

\* generateFFmpegCommand: `main` of the returned command, the pass that
\* writes outputPath: secondPassArgs when useTwoPass, else mainArgs
FinalPass(systemInfo, width, height, quality) ==
    IF UseTwoPass(width, height, quality, systemInfo.isMemoryConstrained)
    THEN [twoPass |-> TRUE, codec |-> "libx264", rate |-> "bitrate",
          preset |-> Preset(systemInfo.isMemoryConstrained),
          crf |-> Missing]
    ELSE [twoPass |-> FALSE, codec |-> MainCodec(systemInfo),
          rate |-> MainRate(systemInfo),
          preset |-> Preset(systemInfo.isMemoryConstrained),
          crf |-> IF MainCodec(systemInfo) = "libx264"
                  THEN Crf(IsHighRes(width, height, quality)) ELSE Missing]

CallCodec(systemInfo, width, height, quality) ==
    /\ fn' = Call("codec",
                  [systemInfo |-> systemInfo, width |-> width,
                   height |-> height, quality |-> quality],
                  FinalPass(systemInfo, width, height, quality))
    /\ UNCHANGED <<serverVars, bundle, ext, tracker, client, net>>

PlanNext ==
    \/ \E q \in HostAnswers : CallDetectSystem(q)
    \/ \E design \in Designs : CallDuration(design)
    \/ \E duration \in Durations, fps \in FrameRates : CallFrames(duration, fps)
    \/ \E width \in Widths, height \in Heights, isMemoryConstrained \in BOOLEAN :
          CallBatchSize(width, height, isMemoryConstrained)
    \/ \E width \in Widths, height \in Heights, quality \in Qualities,
          isMemoryConstrained \in BOOLEAN :
          CallPlan(width, height, quality, isMemoryConstrained)
    \/ \E systemInfo \in SystemInfos, width \in Widths, height \in Heights,
          quality \in Qualities :
          CallCodec(systemInfo, width, height, quality)

PlanSpec == Init /\ [][PlanNext]_vars

\* ============================================================ the audio plan
\* What processAudioTracks and generateFFmpegCommand make of the audio items
\* of a design.

\* the most items a design of the audio plan has
MaxMixTracks == 3

\* an item of design.trackItemIds: src whether it is an audio item with
\* details.src, display.from and display.to in milliseconds; an item of
\* another kind stands for all that are skipped
AudioItems ==
    [src : {TRUE}, from : {0, 280}, to : {Missing, 1000}]
        \cup {[src |-> FALSE, from |-> 0, to |-> Missing]}

\* the trackItemIds of a design, in order
ItemLists == UNION {[1 .. n -> AudioItems] : n \in 0 .. MaxMixTracks}

\* the totalDuration that encodeVideo derives, in milliseconds
MixDuration == 2000

\* JavaScript's `a || b` on numbers, with Missing for undefined
OrElse(a, b) == IF a = Missing \/ a = 0 THEN b ELSE a

\* extractAudioTracks: the positions of the audio items with a source
RECURSIVE Resolvable(_, _)
Resolvable(items, k) ==
    IF k > Len(items) THEN <<>>
    ELSE IF items[k].src THEN <<k>> \o Resolvable(items, k + 1)
    ELSE Resolvable(items, k + 1)

\* extractAudioTracks: the track object pushed for an item; it carries the
\* start and the length of the display but no display field; times are
\* kept in milliseconds here, startTime * 1000 is rounded by adelay
ExtractAudioTracks(items) ==
    [t \in 1 .. Len(Resolvable(items, 1)) |->
        LET item == items[Resolvable(items, 1)[t]]
        IN  [id |-> Resolvable(items, 1)[t],
             startTime |-> OrElse(item.from, 0),
             duration |-> OrElse(item.to, 0) - OrElse(item.from, 0),
             display |-> Missing]]

\* processAudioTracks: the file audio_<i>_<id>.mp3 downloaded for track i
\* (i counted from 0)
Downloaded(tracks) ==
    [t \in 1 .. Len(tracks) |->
        [path |-> <<"audio", t - 1, tracks[t].id>>, track |-> tracks[t]]]

\* generateAudioMixing: `track.display?.to || totalDuration`
TrackEndTime(track, totalDuration) ==
    IF track.display = Missing THEN totalDuration
    ELSE OrElse(track.display.to, totalDuration)

\* generateAudioMixing: `track.display?.from || (track.startTime * 1000)`
TrackStartTime(track) ==
    IF track.display = Missing THEN track.startTime
    ELSE OrElse(track.display.from, track.startTime)

\* generateAudioMixing: the filter chain of one file, reading [inputIndex:a]
Chain(file, inputIndex, label, totalDuration) ==
    [input |-> inputIndex,
     adelay |-> TrackStartTime(file.track),
     atrim |-> TrackEndTime(file.track, totalDuration) - TrackStartTime(file.track),
     label |-> label,
     path |-> file.path]

\* a mixer that joins the chains of several tracks pairwise
GenerateAudioMixingPairwise(audioFiles, totalDuration) ==
    [inputArgs |-> [t \in 1 .. Len(audioFiles) |-> audioFiles[t].path],
     chains |-> IF Len(audioFiles) = 1
                THEN <<Chain(audioFiles[1], 1, <<"audio">>, totalDuration)>>
                ELSE [t \in 1 .. Len(audioFiles) |->
                         Chain(audioFiles[t], (t - 1) + 1, <<"a", t - 1>>,
                               totalDuration)],
     mix |-> IF Len(audioFiles) = 1 THEN <<>>
             ELSE [t \in 1 .. Len(audioFiles) - 1 |->
                      [inputs |-> 2, label |-> <<"audio">>]]]

\* generateAudioMixing: one -i per file; one chain labelled [audio] for a
\* single file, else a chain [a<index>] per file reading input index + 1 and
\* one amix over all of them
GenerateAudioMixing(audioFiles, totalDuration) ==
    [inputArgs |-> [t \in 1 .. Len(audioFiles) |-> audioFiles[t].path],
     chains |-> IF Len(audioFiles) = 1
                THEN <<Chain(audioFiles[1], 1, <<"audio">>, totalDuration)>>
                ELSE [t \in 1 .. Len(audioFiles) |->
                         Chain(audioFiles[t], (t - 1) + 1, <<"a", t - 1>>,
                               totalDuration)],
     mix |-> IF Len(audioFiles) = 1 THEN <<>>
             ELSE <<[inputs |-> Len(audioFiles), label |-> <<"audio">>]>>]

\* processAudioTracks: without tracks the bare argument array of the silent
\* source, which has no inputArgs field
ProcessAudioTracks(items, totalDuration) ==
    IF Len(ExtractAudioTracks(items)) = 0
    THEN [inputArgs |-> <<>>, chains |-> <<>>, mix |-> <<>>]
    ELSE GenerateAudioMixing(Downloaded(ExtractAudioTracks(items)), totalDuration)

\* generateFFmpegCommand: the inputs of the command in order (input 0 is the
\* frame pattern of baseInputArgs) and the filter graph
AudioArgs(audioProcessing) ==
    IF Len(audioProcessing.inputArgs) > 0
    THEN [inputs |-> <<"frames">> \o audioProcessing.inputArgs,
          silent |-> FALSE,
          chains |-> audioProcessing.chains,
          mix |-> audioProcessing.mix,
          map |-> IF Len(audioProcessing.chains) > 0 THEN "[audio]" ELSE "1:a"]
    ELSE [inputs |-> <<"frames", "anullsrc">>,
          silent |-> TRUE,
          chains |-> <<>>,
          mix |-> <<>>,
          map |-> "1:a"]

\* encodeVideo: processAudioTracks, then generateFFmpegCommand
CallAudioPlan(items, totalDuration) ==
    /\ fn' = Call("audioPlan",
                  [items |-> items, totalDuration |-> totalDuration],
                  AudioArgs(ProcessAudioTracks(items, totalDuration)))
    /\ UNCHANGED <<serverVars, bundle, ext, tracker, client, net>>

AudioNext == \E items \in ItemLists : CallAudioPlan(items, MixDuration)

AudioSpec == Init /\ [][AudioNext]_vars

\* ====================================================== the progress tracker
\* createProgressTracker: the operations of one tracker in any order.

\* the phase names and the progress values that callers pass
PhaseArgs == PhaseNames \cup {"unknown"}
ProgressArgs == {-10, 0, 25, 50, 100, 130}

\* Math.min(100, Math.max(0, progress))
Clamp(progress) ==
    IF progress < 0 THEN 0 ELSE IF progress > 100 THEN 100 ELSE progress

RECURSIVE Sum(_, _)
Sum(f, S) ==
    IF S = {} THEN 0
    ELSE LET x == CHOOSE x \in S : TRUE IN f[x] + Sum(f, S \ {x})

\* Math.round of a non-negative quotient
RoundDiv(a, b) == (2 * a + b) \div (2 * b)

\* updatePhaseProgress: Math.round(weightedProgress / totalWeight)
Overall(phases) ==
    RoundDiv(Sum([n \in PhaseNames |-> phases[n].progress * phases[n].weight], PhaseNames),
             Sum([n \in PhaseNames |-> phases[n].weight], PhaseNames))

UpdatePhaseProgress(phase, progress) ==
    /\ tracker' =
         IF phase \notin PhaseNames THEN tracker
         ELSE LET phases == [tracker.phases EXCEPT
                                ![phase].progress = Clamp(progress),
                                ![phase].status = IF progress >= 100 THEN "completed"
                                                  ELSE "in-progress"]
              IN  [tracker EXCEPT
                      !.phases = phases,
                      !.overallProgress = Overall(phases),
                      !.phaseProgress = progress,
                      !.currentPhase = phase,
                      !.emitted = [phase |-> phase, progress |-> Overall(phases),
                                   phaseProgress |-> progress]]
    /\ UNCHANGED <<serverVars, fn, bundle, ext, client, net>>

\* completePhase
CompletePhase(phase) == UpdatePhaseProgress(phase, 100)

\* startPhase: the phase starts over at 0; overallProgress is left as it is
StartPhase(phase) ==
    /\ tracker' =
         IF phase \notin PhaseNames THEN tracker
         ELSE [tracker EXCEPT
                  !.phases[phase].status = "in-progress",
                  !.phases[phase].progress = 0,
                  !.currentPhase = phase,
                  !.emitted = [phase |-> phase, progress |-> tracker.overallProgress,
                               phaseProgress |-> 0]]
    /\ UNCHANGED <<serverVars, fn, bundle, ext, client, net>>

\* complete
TrackerComplete ==
    /\ tracker' = [tracker EXCEPT
          !.phases = [n \in PhaseNames |->
                         [tracker.phases[n] EXCEPT !.progress = 100,
                                                   !.status = "completed"]],
          !.overallProgress = 100,
          !.currentPhase = "completed",
          !.emitted = [phase |-> "completed", progress |-> 100, phaseProgress |-> 100]]
    /\ UNCHANGED <<serverVars, fn, bundle, ext, client, net>>

\* fail
TrackerFail ==
    /\ tracker' = [tracker EXCEPT
          !.currentPhase = "failed",
          !.emitted = [phase |-> "failed", progress |-> tracker.overallProgress,
                       phaseProgress |-> tracker.phaseProgress]]
    /\ UNCHANGED <<serverVars, fn, bundle, ext, client, net>>

TrackerNext ==
    \/ \E phase \in PhaseArgs, progress \in ProgressArgs :
          UpdatePhaseProgress(phase, progress)
    \/ \E phase \in PhaseArgs : CompletePhase(phase)
    \/ \E phase \in PhaseArgs : StartPhase(phase)
    \/ TrackerComplete
    \/ TrackerFail

TrackerSpec == Init /\ [][TrackerNext]_vars

\* ========================================================= the editor's export
\* The download store of the editor during one export, with the server's
\* side of the job as the store sees it: its answers and its socket events.

\* the id that the server gives the job
ExportJob == "j1"

\* error.message of the render process' catch block
RenderFailure == "render failed"

\* the message of checkStatus' own throw
StatusFailure == "Failed to check render status"

\* io.emit of updateProgress: { jobId, progress, phase }
ProgressMessage(progress, phase) ==
    [progress |-> progress, phase |-> phase, status |-> "undefined",
     error |-> "undefined"]

\* io.emit on completion: { jobId, progress: 100, phase: 'completed', outputPath }
CompletedMessage == ProgressMessage(100, "completed")

\* io.emit of the catch block: { jobId, status: 'error', error }, no
\* progress and no phase
FailureMessage ==
    [progress |-> Missing, phase |-> "undefined", status |-> "error",
     error |-> RenderFailure]

\* io.emit of the cancel handler
CancelledMessage ==
    [progress |-> 0, phase |-> "cancelled", status |-> "cancelled",
     error |-> "undefined"]

\* io.emit reaches the sockets that are connected
Emit(message) ==
    IF client.socketConnected THEN Append(net.chan, message) ELSE net.chan

\* startExport up to its fetch of /api/render/start
StartExport ==
    /\ net.start = "none"
    /\ client' = [client EXCEPT !.exporting = TRUE, !.error = "null"]
    /\ net' = [net EXCEPT !.start = "sent"]
    /\ UNCHANGED <<serverVars, fn, bundle, ext, tracker>>

\* POST /api/render/start: registers the job and answers
SrvAccept ==
    /\ net.start = "sent"
    /\ net' = [net EXCEPT !.start = "answered", !.status = "initialized",
                          !.progress = 0, !.phase = "undefined", !.proc = "tick"]
    /\ UNCHANGED <<serverVars, fn, bundle, ext, tracker, client>>

\* startRenderProcess: status rendering, updateProgress(0, 'extraction')
SrvRender ==
    /\ net.proc = "tick"
    /\ net' = [net EXCEPT !.status = "rendering", !.progress = 0,
                          !.phase = "extraction", !.proc = "extraction",
                          !.chan = Emit(ProgressMessage(0, "extraction"))]
    /\ UNCHANGED <<serverVars, fn, bundle, ext, tracker, client>>

\* startRenderProcess: updateProgress(50, 'encoding'); it does not look at
\* the status
SrvProgress ==
    /\ net.proc = "extraction"
    /\ net' = [net EXCEPT !.progress = ExtractionShare, !.phase = "encoding",
                          !.proc = "encoding",
                          !.chan = Emit(ProgressMessage(ExtractionShare, "encoding"))]
    /\ UNCHANGED <<serverVars, fn, bundle, ext, tracker, client>>

\* startRenderProcess: step 3
SrvComplete ==
    /\ net.proc = "encoding"
    /\ net' = [net EXCEPT !.status = "completed", !.progress = 100,
                          !.phase = "completed", !.proc = "done",
                          !.chan = Emit(CompletedMessage)]
    /\ UNCHANGED <<serverVars, fn, bundle, ext, tracker, client>>

\* startRenderProcess: the catch block
SrvFail ==
    /\ net.proc \in {"extraction", "encoding"}
    /\ net' = [net EXCEPT !.status = "error", !.proc = "done",
                          !.chan = Emit(FailureMessage)]
    /\ UNCHANGED <<serverVars, fn, bundle, ext, tracker, client>>

\* startExport after the fetch: renderJobId, connectSocket, and checkStatus
\* when the socket is not connected yet
StartResponse ==
    /\ net.start = "answered"
    /\ client' = [client EXCEPT !.renderJobId = ExportJob]
    /\ net' = [net EXCEPT !.start = "done", !.listening = TRUE,
                          !.poll = IF ~client.socketConnected THEN "request"
                                   ELSE "none"]
    /\ UNCHANGED <<serverVars, fn, bundle, ext, tracker>>

\* socket.on('connect')
SocketConnect ==
    /\ net.listening
    /\ ~client.socketConnected
    /\ client' = [client EXCEPT !.socketConnected = TRUE]
    /\ UNCHANGED <<serverVars, fn, bundle, ext, tracker, net>>

\* the listener of connectSocket: what a message does to the store
OnJobProgress(store, data) ==
    LET seen == [store EXCEPT !.progress = data.progress, !.renderPhase = data.phase]
    IN  IF data.phase = "completed"
        THEN [seen EXCEPT !.exporting = FALSE, !.output = TRUE]
        ELSE IF data.phase = "failed"
        THEN [seen EXCEPT !.exporting = FALSE, !.error = data.error]
        ELSE seen

\* socket.on(`job-progress-${jobId}`): the oldest message arrives
Deliver ==
    /\ net.listening
    /\ net.chan # <<>>
    /\ client' = OnJobProgress(client, Head(net.chan))
    /\ net' = [net EXCEPT !.chan = Tail(net.chan)]
    /\ UNCHANGED <<serverVars, fn, bundle, ext, tracker>>

\* GET /api/render/status/:jobId answers checkStatus' fetch; found is false
\* when the registry has no such job
StatusAnswer(found) ==
    IF found
    THEN [ok |-> TRUE, status |-> net.status, progress |-> net.progress,
          phase |-> IF net.phase = "undefined" THEN "initializing" ELSE net.phase]
    ELSE NoAnswer

PollAnswer(found) ==
    /\ net.poll = "request"
    /\ net' = [net EXCEPT !.poll = "answered", !.answer = StatusAnswer(found)]
    /\ UNCHANGED <<serverVars, fn, bundle, ext, tracker, client>>

\* checkStatus after its fetch: what the answer does to the store
OnStatus(store, statusInfo) ==
    IF ~statusInfo.ok
    THEN [store EXCEPT !.exporting = FALSE, !.error = StatusFailure]
    ELSE LET seen == [store EXCEPT !.progress = statusInfo.progress,
                                   !.renderPhase = statusInfo.phase]
         IN  IF statusInfo.status = "completed"
             THEN [seen EXCEPT !.exporting = FALSE, !.output = TRUE]
             ELSE IF statusInfo.status = "error"
             THEN [seen EXCEPT !.exporting = FALSE, !.error = RenderFailure]
             ELSE seen

\* checkStatus: setTimeout(checkStatus, 1000) unless the answer is a
\* failure, completed or error
PollAgain(statusInfo) ==
    statusInfo.ok /\ statusInfo.status \notin {"completed", "error"}

PollReceive ==
    /\ net.poll = "answered"
    /\ client' = OnStatus(client, net.answer)
    /\ net' = [net EXCEPT !.poll = IF PollAgain(net.answer) THEN "timer" ELSE "none",
                          !.answer = NoAnswer]
    /\ UNCHANGED <<serverVars, fn, bundle, ext, tracker>>

\* the timeout of checkStatus fires: the next fetch
PollTimer ==
    /\ net.poll = "timer"
    /\ net' = [net EXCEPT !.poll = "request"]
    /\ UNCHANGED <<serverVars, fn, bundle, ext, tracker, client>>

\* cancelExport: the reset of the store
ResetStore(store) ==
    [store EXCEPT !.exporting = FALSE, !.progress = 0, !.renderJobId = "",
                  !.renderPhase = "", !.error = "null"]

\* cancelExport up to its fetch; without a job id it resets at once
CancelExport ==
    /\ client.exporting
    /\ net.cancel = "none"
    /\ IF client.renderJobId # ""
       THEN /\ net' = [net EXCEPT !.cancel = "sent"]
            /\ client' = client
       ELSE /\ net' = [net EXCEPT !.cancel = "done"]
            /\ client' = ResetStore(client)
    /\ UNCHANGED <<serverVars, fn, bundle, ext, tracker>>

\* POST /api/render/cancel/:jobId
SrvCancel ==
    /\ net.cancel = "sent"
    /\ net' = IF net.status \in {"rendering", "initialized"}
              THEN [net EXCEPT !.cancel = "answered", !.status = "cancelled",
                               !.progress = 0, !.chan = Emit(CancelledMessage)]
              ELSE [net EXCEPT !.cancel = "answered"]
    /\ UNCHANGED <<serverVars, fn, bundle, ext, tracker, client>>

\* cancelExport after its fetch
CancelReturn ==
    /\ net.cancel = "answered"
    /\ client' = ResetStore(client)
    /\ net' = [net EXCEPT !.cancel = "done"]
    /\ UNCHANGED <<serverVars, fn, bundle, ext, tracker>>

ClientNext ==
    \/ StartExport
    \/ SrvAccept
    \/ SrvRender
    \/ SrvProgress
    \/ SrvComplete
    \/ SrvFail
    \/ StartResponse
    \/ SocketConnect
    \/ Deliver
    \/ \E found \in BOOLEAN : PollAnswer(found)
    \/ PollReceive
    \/ PollTimer
    \/ CancelExport
    \/ SrvCancel
    \/ CancelReturn

ClientSpec == Init /\ [][ClientNext]_vars

\* ===================================================== two concurrent jobs
\* What two jobs that extract at the same time do to the file system.

\* path.join(__dirname, 'temp', jobId) of index.js
JobDir(j) == <<"server", "temp", j>>

\* path.join(__dirname, '..', 'temp', 'bundle') of renderer/extract.js
BundleDir == <<"server", "temp", "bundle">>

\* the stages in which a job is under way
InFlight(j) ==
    ext[j].stage \in {"created", "bundling", "selecting", "opening", "rendering"}

\* the start handler: the job directory with job-data.json and frames/
Create(j) ==
    /\ ext[j].stage = "none"
    /\ ext' = [ext EXCEPT ![j] = [@ EXCEPT !.stage = "created",
                                           !.wrote = @ \cup {JobDir(j)}]]
    /\ UNCHANGED <<serverVars, fn, bundle, tracker, client, net>>

\* extractFrames up to its await of bundle(): input-props.json goes to the
\* job directory, and webpack starts to write the bundle directory
BundleStart(j) ==
    /\ ext[j].stage = "created"
    /\ ext' = [ext EXCEPT ![j] = [@ EXCEPT !.stage = "bundling",
                                           !.wrote = @ \cup {JobDir(j), BundleDir}]]
    /\ bundle' = [content |-> "partial", writers |-> bundle.writers \cup {j}]
    /\ UNCHANGED <<serverVars, fn, tracker, client, net>>

\* bundle() resolves: the directory is complete unless another job's
\* bundle() is still writing it
BundleDone(j) ==
    /\ ext[j].stage = "bundling"
    /\ ext' = [ext EXCEPT ![j].stage = "selecting"]
    /\ LET writers == bundle.writers \ {j}
       IN bundle' = [content |-> IF writers = {} THEN "complete" ELSE "partial",
                     writers |-> writers]
    /\ UNCHANGED <<serverVars, fn, tracker, client, net>>

\* selectComposition, and then renderFrames, open a page that loads the
\* bundle from serveUrl; a directory that is being rewritten may or may not
\* give it an intact bundle, and the call rejects when it does not
Load(j, intact) ==
    /\ ext[j].stage \in {"selecting", "opening"}
    /\ bundle.content = "complete" => intact
    /\ ext' = [ext EXCEPT ![j] =
          [@ EXCEPT !.stage = IF ~intact THEN "failed"
                              ELSE IF @ = "selecting" THEN "opening" ELSE "rendering",
                    !.read = @ \cup {BundleDir}]]
    /\ UNCHANGED <<serverVars, fn, bundle, tracker, client, net>>

\* renderFrames writes a frame to the job's frames directory
WriteFrame(j) ==
    /\ ext[j].stage = "rendering"
    /\ ext[j].frames < MaxFrames
    /\ ext' = [ext EXCEPT ![j] = [@ EXCEPT !.frames = @ + 1,
                                           !.wrote = @ \cup {JobDir(j)}]]
    /\ UNCHANGED <<serverVars, fn, bundle, tracker, client, net>>

\* renderFrames resolves; encodeVideo reads the frames and writes the
\* output file and the pass log to the job directory
Encode(j) ==
    /\ ext[j].stage = "rendering"
    /\ ext[j].frames = MaxFrames
    /\ ext' = [ext EXCEPT ![j] = [@ EXCEPT !.stage = "done",
                                           !.read = @ \cup {JobDir(j)},
                                           !.wrote = @ \cup {JobDir(j)}]]
    /\ UNCHANGED <<serverVars, fn, bundle, tracker, client, net>>

TwoJobsNext ==
    \/ \E j \in Concurrent : Create(j)
    \/ \E j \in Concurrent : BundleStart(j)
    \/ \E j \in Concurrent : BundleDone(j)
    \/ \E j \in Concurrent, intact \in BOOLEAN : Load(j, intact)
    \/ \E j \in Concurrent : WriteFrame(j)
    \/ \E j \in Concurrent : Encode(j)

TwoJobsSpec == Init /\ [][TwoJobsNext]_vars

\* =============================================================== claims
Terminal == {"completed", "error", "cancelled"}

Active == {"initialized", "rendering"}

ProgressEmitted(j, events) ==
    \E i \in 1 .. Len(events) : events[i].job = j /\ events[i].kind = "progress"

\* C1: once a job is Cancelled, no progress event is emitted for it and its
\* record's progress and phase are not written again, although the renderer
\* or encoder keeps running and calling its progress callback.
C1_NoProgressAfterCancel ==
    [][\A j \in Jobs :
          activeJobs[j].status = "cancelled"
          => /\ ~ProgressEmitted(j, evt')
             /\ activeJobs'[j].progress = activeJobs[j].progress
             /\ activeJobs'[j].phase = activeJobs[j].phase]_vars

\* C2: Completed, Failed and Cancelled are terminal: no step changes the
\* status of a registered job that is in one of them.
C2_TerminalStatusIsFinal ==
    [][\A j \in Jobs :
          activeJobs[j].status \in Terminal /\ activeJobs'[j] # NoJob
          => activeJobs'[j].status = activeJobs[j].status]_vars

\* C3: a job is Completed only if every encoder pass it ran exited with
\* code 0 and the output file is not empty; once a pass exits non-zero or
\* cannot be spawned, or the output is missing or empty, the job is Failed
\* with an error message (and so never Completed).
C3_CompletedOnlyAfterCleanEncode ==
    \A j \in Jobs :
        /\ activeJobs[j].status = "completed"
           => /\ hist[j].spawns = (IF input[j].twoPass THEN 2 ELSE 1)
              /\ hist[j].passesOk = hist[j].spawns
              /\ hist[j].outputOk
              /\ ~hist[j].encFail
        /\ hist[j].encFail
           => /\ pc[j] = "done"
              /\ activeJobs[j].status = "error"
              /\ activeJobs[j].error

\* C3 witness: a two-pass job has completed
C3_Witness ==
    \E j \in Jobs : activeJobs[j].status = "completed" /\ hist[j].spawns = 2

\* C4: while a job stays active (initialized or rendering), the progress
\* stored in its record, which status reads return and progress events
\* carry, never decreases from one step to the next.
C4_ProgressMonotoneWhileActive ==
    [][\A j \in Jobs :
          activeJobs[j].status \in Active /\ activeJobs'[j].status \in Active
          => activeJobs'[j].progress >= activeJobs[j].progress]_vars

\* C5: audio processing, the encoder and the phase 'encoding' come only
\* after extraction has returned; when extraction throws, the job is Failed,
\* its phase never became 'encoding' and no audio or encoder step ran.
C5_EncodingFollowsExtraction ==
    \A j \in Jobs :
        /\ (hist[j].spawns > 0 \/ hist[j].audio \/ hist[j].sawEncoding
              \/ pc[j] \in {"audio", "pass1", "main"}
              \/ activeJobs[j].phase = "encoding")
           => hist[j].extract = "ok"
        /\ hist[j].extract = "threw"
           => /\ activeJobs[j].status = "error"
              /\ pc[j] = "done"
              /\ hist[j].spawns = 0 /\ ~hist[j].audio /\ ~hist[j].sawEncoding

\* C5 witness: the renderer threw after it had rendered a frame
C5_Witness ==
    \E j \in Jobs : hist[j].extract = "threw" /\ framesDone[j] > 0

\* C6: a record holds, and status returns, an output path only when the
\* job is Completed; download delivers only for a Completed job and is
\* rejected for every other status and for an unregistered id.
C6_OutputOnlyWhenCompleted ==
    \A j \in Jobs :
        /\ activeJobs[j].outputPath => activeJobs[j].status = "completed"
        /\ (resp.op = "status" /\ resp.job = j /\ resp.outputPath)
           => resp.status = "completed" /\ activeJobs[j].status = "completed"
        /\ (resp.op = "download" /\ resp.job = j)
           => IF activeJobs[j].status = "completed"
              THEN resp.code \in {200, 404}
              ELSE resp.code \in {400, 404}

\* C6 witness: a download was delivered
C6_Witness == resp.op = "download" /\ resp.code = 200

\* C7: every registered job in a terminal state has its eviction from the
\* registry pending, whether or not save was called.
C7_TerminalJobsAreEvicted ==
    \A j \in Jobs :
        activeJobs[j].status \in Terminal => timers[j].save > 0

\* C8: from a save's acknowledgement until the cleanup it scheduled has
\* run, the job is registered and Completed (so status reports Completed),
\* also when save is called again before the cleanup fires.
C8_CompletedUntilSaveCleanup ==
    \A j \in Jobs :
        timers[j].save > 0 => activeJobs[j].status = "completed"

\* C9: a save that is answered with an error (rejected, or the copy
\* failed) leaves the registry, the scratch directory and the pending
\* cleanups as they were: no cleanup is scheduled.
C9_FailedSaveChangesNothing ==
    [][\A j \in Jobs :
          (resp'.op = "save" /\ resp'.job = j /\ resp'.code # 200)
          => /\ resp'.code \in {400, 404, 500}
             /\ activeJobs' = activeJobs
             /\ timers' = timers
             /\ disk' = disk]_vars

\* C9 witness: the copy of a Completed job's artifact failed
C9_Witness ==
    \E j \in Jobs :
        /\ resp.op = "save" /\ resp.job = j /\ resp.code = 500
        /\ activeJobs[j].status = "completed"

\* C10: cancel on a registered job is always acknowledged with success,
\* also when the job is already Completed, Failed or Cancelled.
C10_CancelAcknowledged ==
    \A j \in Jobs :
        (resp.op = "cancel" /\ resp.job = j /\ activeJobs[j] # NoJob)
        => resp.code = 200

\* C11: when the fetch of an audio source fails (a response other than
\* 200, a network error or a file write error), the job is Failed, no
\* encoder pass was spawned for it and it is not Completed.
C11_FetchFailureFailsJob ==
    \A j \in Jobs :
        hist[j].fetchFail # "none"
        => /\ activeJobs[j].status = "error"
           /\ hist[j].spawns = 0

\* C12: a submission whose output options are malformed (here: no quality
\* label) is rejected before a job record or a scratch directory is
\* created, so no job exists, or fails later, with malformed options.
C12_MalformedOptionsRejected ==
    \A j \in Jobs :
        (activeJobs[j] # NoJob \/ disk[j].dir \/ pc[j] # "idle")
        => input[j].quality

\* the probes detectSystem runs on the host q that do not resolve
FailedProbes(q) == {p \in Probes : ~q.probeOk[p] /\ (p = "qsv" => ~q.isArm)}

NoAccelerator(snapshot) ==
    ~snapshot.hasQuickSync /\ ~snapshot.hasVideoToolbox /\ ~snapshot.hasNvenc

\* C13 as stated: whenever a host query fails, an accelerator probe
\* included, the snapshot has isMemoryConstrained = true and no accelerator
\* flag set.
C13_AnyFailureGivesDefaults ==
    fn.op = "detectSystem"
    => ((fn.arg.hostFails \/ FailedProbes(fn.arg) # {})
        => fn.out.isMemoryConstrained /\ NoAccelerator(fn.out))

\* C13: capability detection always returns a snapshot. When a query
\* outside the accelerator probes fails, the snapshot has
\* isMemoryConstrained = true and no accelerator flag set. A failing
\* accelerator probe clears the flag of that accelerator alone: the other
\* flags are as ffmpeg lists them and isMemoryConstrained is true exactly
\* when the total memory is at most 8192 MB.
C13_FailureDefaults ==
    fn.op = "detectSystem"
    => LET q == fn.arg
           snapshot == fn.out
       IN IF q.hostFails
          THEN snapshot.isMemoryConstrained /\ NoAccelerator(snapshot)
          ELSE /\ snapshot.isMemoryConstrained = (q.totalMemoryMB <= 8192)
               /\ snapshot.hasQuickSync
                  = ("qsv" \in q.hwaccels \ FailedProbes(q) /\ ~q.isArm)
               /\ snapshot.hasVideoToolbox
                  = ("videotoolbox" \in q.hwaccels \ FailedProbes(q))
               /\ snapshot.hasNvenc = ("cuda" \in q.hwaccels \ FailedProbes(q))

\* C13 witness: one probe failed, another found its accelerator, on a host
\* with ample memory
C13_Witness ==
    /\ fn.op = "detectSystem"
    /\ ~fn.arg.hostFails
    /\ "qsv" \in FailedProbes(fn.arg)
    /\ fn.out.hasNvenc
    /\ ~fn.out.isMemoryConstrained

\* C14: every submitted job pushes a terminal message (completed, error
\* or cancelled): once its render process has ended, or can run no further,
\* the message has been emitted; and a registered job is in a terminal
\* state only after such a message.
C14_TerminalMessagePushed ==
    \A j \in Jobs :
        /\ (pc[j] = "done" \/ (crashed /\ pc[j] # "idle")) => hist[j].terminalMsg
        /\ activeJobs[j].status \in Terminal => hist[j].terminalMsg

\* C15: in a two-pass encode the second pass is spawned only after the
\* first has exited with code 0 and after the progress reported for the
\* first pass has reached the end of its sub-range, 45; no second-pass
\* progress is reported before the first pass has ended.
C15_FirstPassCompleteBeforeSecond ==
    \A j \in Jobs :
        /\ (input[j].twoPass /\ hist[j].spawns = 2)
           => /\ hist[j].passesOk >= 1
              /\ hist[j].pass1Full
        /\ hist[j].pass2Seen => hist[j].spawns = 2

\* C16: two concurrent jobs share no mutable state but the registry: no
\* job writes a file-system location that the other job, while both are
\* under way, writes or reads, and no job fails that would succeed alone.
C16_JobsShareNothing ==
    \A a \in Concurrent, b \in Concurrent :
        /\ (a # b /\ InFlight(a) /\ InFlight(b))
           => ext[a].wrote \cap (ext[b].wrote \cup ext[b].read) = {}
        /\ ext[a].stage # "failed"

\* the display ends that the items of a design have
DisplayEnds(design) == {to \in design.items : to # Missing /\ to > 0}

\* C17: the duration derived for a job is the explicit timelineDuration
\* when one is supplied, whatever the items' display ends and the design's
\* duration; else the largest display end of the items; else the design's
\* duration. Frame extraction and audio processing derive the same value.
C17_DurationPrecedence ==
    fn.op = "duration"
    => LET design == fn.arg
           expected ==
               IF design.timelineDuration # Missing /\ design.timelineDuration > 0
               THEN design.timelineDuration
               ELSE IF DisplayEnds(design) # {} THEN Max(DisplayEnds(design))
               ELSE design.duration
       IN /\ fn.out.extraction = expected
          /\ fn.out.audio = fn.out.extraction

\* C18: for a derived duration D (ms) and a frame rate F the renderer is
\* asked for ceil(D / 1000 * F) frames: the least n with n * 1000 >= D * F.
\* (That the encoder starts only after the renderer has returned is C5.)
C18_FramesRequested ==
    fn.op = "frames"
    => LET product == fn.arg.duration * fn.arg.fps
       IN /\ fn.out.requested * 1000 >= product
          /\ (fn.out.requested - 1) * 1000 < product

\* the reference table of batch sizes
ReferenceBatch(class, isMemoryConstrained) ==
    IF isMemoryConstrained
    THEN CASE class = "4K" -> 10 [] class = "1080p" -> 15 [] OTHER -> 20
    ELSE CASE class = "4K" -> 20 [] class = "1080p" -> 30 [] OTHER -> 60

\* C19 as stated: the batch size is the reference table's, where 4K is a
\* size of at least 3840 x 2160 in both dimensions and 1080p one of at
\* least 1920 x 1080 in both dimensions below 4K.
C19_BatchTableBothDimensions ==
    fn.op = "batchSize"
    => LET class == IF fn.arg.width >= 3840 /\ fn.arg.height >= 2160 THEN "4K"
                    ELSE IF fn.arg.width >= 1920 /\ fn.arg.height >= 1080 THEN "1080p"
                    ELSE "other"
       IN fn.out = ReferenceBatch(class, fn.arg.isMemoryConstrained)

\* C19: the batch size is the reference table's (constrained: 4K 10,
\* 1080p 15, other 20; unconstrained: 4K 20, 1080p 30, other 60), where 4K
\* is a width of at least 3840 or a height of at least 2160, and 1080p a
\* width of at least 1920 or a height of at least 1080 below 4K.
C19_BatchTableEitherDimension ==
    fn.op = "batchSize"
    => LET class == IF fn.arg.width >= 3840 \/ fn.arg.height >= 2160 THEN "4K"
                    ELSE IF fn.arg.width >= 1920 \/ fn.arg.height >= 1080 THEN "1080p"
                    ELSE "other"
       IN fn.out = ReferenceBatch(class, fn.arg.isMemoryConstrained)

\* C19 witness: a size that is 4K in its width alone, on a constrained host
C19_Witness ==
    /\ fn.op = "batchSize"
    /\ fn.arg.width = 3840 /\ fn.arg.height = 1080 /\ fn.arg.isMemoryConstrained
    /\ fn.out = 10

\* C20 as stated: the plan is two-pass exactly when the size is at least
\* 3840 x 2160 or the memory is constrained; 3840 x 2160 with constrained
\* memory gives batch size 10 and two passes.
C20_TwoPassIffHighOrConstrained ==
    fn.op = "plan"
    => /\ fn.out.twoPass
          = ((fn.arg.width >= 3840 /\ fn.arg.height >= 2160)
             \/ fn.arg.isMemoryConstrained)
       /\ (fn.arg.width = 3840 /\ fn.arg.height = 2160 /\ fn.arg.isMemoryConstrained)
          => fn.out.batchSize = 10 /\ fn.out.twoPass

\* C20: the plan is two-pass exactly when the target is high-resolution (a
\* width of at least 3840, or a height of at least 2160, or the 4K quality
\* label) or the memory is constrained, and single-pass otherwise;
\* 3840 x 2160 with constrained memory gives batch size 10 and two passes.
C20_TwoPassIffHighResOrConstrained ==
    fn.op = "plan"
    => /\ fn.out.twoPass
          = (fn.arg.width >= 3840 \/ fn.arg.height >= 2160
             \/ fn.arg.quality = "4K (2160p)" \/ fn.arg.isMemoryConstrained)
       /\ (fn.arg.width = 3840 /\ fn.arg.height = 2160 /\ fn.arg.isMemoryConstrained)
          => fn.out.batchSize = 10 /\ fn.out.twoPass

\* C20 witness: the 4K label alone makes a 1920 x 1080 plan two-pass
C20_Witness ==
    /\ fn.op = "plan"
    /\ fn.arg.width = 1920 /\ fn.arg.height = 1080
    /\ fn.arg.quality = "4K (2160p)" /\ ~fn.arg.isMemoryConstrained
    /\ fn.out.twoPass

\* The codec that mainArgs would name for this systemInfo, in the order
\* ARM with VideoToolbox, NVENC, QuickSync, software.
PreferredCodec(systemInfo) ==
    IF systemInfo.isArm /\ systemInfo.hasVideoToolbox THEN "h264_videotoolbox"
    ELSE IF systemInfo.hasNvenc THEN "h264_nvenc"
    ELSE IF systemInfo.hasQuickSync THEN "h264_qsv"
    ELSE "libx264"

EncoderInput(plan, n) == plan.inputs[n + 1]

\* the resolvable audio items of the call, in order
ResolvableItems == Resolvable(fn.arg.items, 1)

\* C22: with N resolvable audio items the plan is the silent source without
\* a filter graph for N = 0, one filter chain without a mix node for N = 1,
\* and for N >= 2 N labelled chains joined by exactly one mix node of N
\* inputs; chain i (from 0) reads encoder input i + 1, the i-th fetched file.
C22_AudioPlanByTrackCount ==
    fn.op = "audioPlan" =>
        LET N == Len(ResolvableItems)
            plan == fn.out
        IN  /\ N = 0 => /\ plan.silent
                        /\ plan.chains = <<>> /\ plan.mix = <<>>
                        /\ plan.inputs = <<"frames", "anullsrc">>
            /\ N = 1 => /\ ~plan.silent
                        /\ Len(plan.chains) = 1 /\ plan.mix = <<>>
            /\ N >= 2 => /\ ~plan.silent
                         /\ Len(plan.chains) = N
                         /\ Len(plan.mix) = 1
                         /\ plan.mix[1].inputs = N
                         /\ \A a, b \in 1 .. N :
                               a # b => plan.chains[a].label # plan.chains[b].label
            /\ N >= 1 =>
                  /\ Len(plan.inputs) = N + 1
                  /\ \A t \in 1 .. N :
                        /\ plan.chains[t].input = (t - 1) + 1
                        /\ EncoderInput(plan, plan.chains[t].input)
                              = <<"audio", t - 1, ResolvableItems[t]>>

\* a design of three items, the first not an audio item, whose two audio
\* items are mixed
C22_Witness ==
    /\ fn.op = "audioPlan"
    /\ Len(fn.arg.items) = 3
    /\ ~fn.arg.items[1].src
    /\ Len(fn.out.chains) = 2
    /\ Len(fn.out.mix) = 1

\* C26: in single- and multi-track plans alike the chain of an audio track
\* delays it by its display start and trims it to display end minus display
\* start; the total duration stands in for the end only when the item has
\* no display end.
C26_TrimByDisplay ==
    fn.op = "audioPlan" =>
        \A t \in 1 .. Len(fn.out.chains) :
            LET item == fn.arg.items[ResolvableItems[t]]
            IN  /\ fn.out.chains[t].adelay = item.from
                /\ fn.out.chains[t].atrim =
                      IF item.to # Missing THEN item.to - item.from
                      ELSE fn.arg.totalDuration - item.from

\* C23: whatever tracker operations are called, the stored progress of a
\* phase never decreases, and a phase that is not the current one has
\* progress 0 or 100.
C23_PhaseProgressNeverRegresses ==
    [][\A n \in PhaseNames :
          /\ tracker'.phases[n].progress >= tracker.phases[n].progress
          /\ tracker'.currentPhase # n => tracker'.phases[n].progress \in {0, 100}]_vars

\* half the sum of the two phases' progress, rounded as Math.round does
WeightedSum(t) ==
    (t.phases["extraction"].progress + t.phases["encoding"].progress + 1) \div 2

\* C24: after any sequence of tracker operations the stored overall progress
\* and the progress of the event just emitted equal the rounded sum of
\* phase.progress x phase.weight (weights 0.5 + 0.5), and lie in 0..100.
C24_OverallIsWeightedSum ==
    /\ tracker.overallProgress = WeightedSum(tracker)
    /\ tracker.overallProgress \in 0 .. 100
    /\ tracker.emitted.phase # "none" =>
          tracker.emitted.progress = WeightedSum(tracker)

\* the progress events among `events`
ProgressEvents(events) ==
    {events[i] : i \in {k \in 1 .. Len(events) : events[k].kind = "progress"}}

\* C25: every progress value stored in a job record or emitted for it lies
\* in 0..100; the values reported during extraction lie in 0..50, those
\* reported during encoding in 50..100, and those of an encoder pass within
\* the share of that pass, whatever frame updates and Duration:/time=
\* markers arrive.
C25_ProgressWithinRange ==
    \A j \in Jobs :
        /\ activeJobs[j] # NoJob => activeJobs[j].progress \in 0 .. 100
        /\ \A e \in ProgressEvents(evt) :
              /\ e.progress \in 0 .. 100
              /\ e.phase = "extraction" => e.progress \in 0 .. ExtractionShare
              /\ e.phase = "encoding" => e.progress \in ExtractionShare .. 100
              /\ (e.phase = "encoding" /\ pc[j] = "pass1")
                    => e.progress <= EncodingProgress(FirstPassEnd)
              /\ (e.phase = "encoding" /\ pc[j] = "main" /\ input[j].twoPass
                     /\ hist[j].pass2Seen)
                    => e.progress >= EncodingProgress(FirstPassEnd)

\* C27: a job whose derived frame count is invalid (zero or negative) fails
\* in extraction before the renderer is invoked: its render process is over,
\* extraction threw, and the renderer reported no frame for a substituted
\* count.
C27_InvalidConfigFailsBeforeRender ==
    \A j \in Jobs :
        (input[j].body /\ input[j].frames <= 0 /\ pc[j] \notin {"idle", "tick"})
        => /\ pc[j] = "done"
           /\ hist[j].extract = "threw"
           /\ framesDone[j] = 0

\* the steps of startRenderProcess that run the renderer or the encoder, or
\* fetch audio into the job directory
Working == {"extracting", "audio", "pass1", "main"}

\* C28: no cleanup timer of a job (after cancel, after completion, after
\* save) fires, and so deletes in the job's scratch directory, while the
\* job's renderer or encoder is still running.
C28_NoCleanupWhileWorking ==
    [][\A j \in Jobs :
          ( \/ timers[j].cancel /\ ~timers'[j].cancel
            \/ timers[j].frames /\ ~timers'[j].frames
            \/ timers'[j].save < timers[j].save )
          => pc[j] \notin Working]_vars

\* C29: when the server's failure message of a job reaches the store that
\* listens on the job's channel, the store leaves the exporting state and
\* its error is the server's error message.
C29_FailureMessageEndsExport ==
    [][(net.listening /\ net.chan # <<>> /\ net'.chan = Tail(net.chan)
           /\ Head(net.chan).status = "error")
          => /\ ~client'.exporting
             /\ client'.error = Head(net.chan).error]_vars

\* the user has cancelled the export and the store is reset
UserCancelled == net.cancel = "done"

\* C30: a poll result that arrives once the job is in a terminal status
\* (completed, error, cancelled), or after the user cancelled the export,
\* schedules no further status request, and after a cancel it leaves the
\* reset store as it is.
C30_PollingStops ==
    [][(net.poll = "answered" /\ net'.poll # "answered")
          => /\ ((net.answer.ok /\ net.answer.status \in Terminal) \/ UserCancelled)
                   => net'.poll = "none"
             /\ UserCancelled => client' = client]_vars

====
